---- MODULE Spec2Model ----
(***************************************************************************)
(* State machine of src/src/App.tsx: the React component App, its state    *)
(* hooks, its three effects and its five event handlers, together with the *)
(* two clustering engines it calls (K-means and DBSCAN).  The engines are   *)
(* not part of the source tree (App.tsx imports them); they are modelled    *)
(* from sections 4.1 and 4.2 of the specification.                          *)
(***************************************************************************)
EXTENDS Integers, Sequences, FiniteSets, TLC

(***************************************************************************)
(* Bounds and program constants                                            *)
(***************************************************************************)
\* number of points generateRandomData produces (100 in the source, scaled)
NumPoints == 4
\* iteration bound of Lloyd's method (spec 4.1 step 2)
MaxIterations == 100
\* useState initial values
InitClusters == 3
InitEpsilon == 50
InitMinPoints == 3

\* A JavaScript number that may be NaN, and an optional number field that may
\* be undefined, are sequences of length at most one: <<v>> is the number v.
Num(v) == <<v>>
NaN == <<>>
Undefined == <<>>
IsNum(n) == n # <<>>
Val(n) == n[1]
\* the error state before any failure
NULL == "null"
\* DBSCAN's Noise marker as runClustering writes it
Noise == -1

(***************************************************************************)
(* Small helpers                                                           *)
(***************************************************************************)
Pt(a, b) == [x |-> a, y |-> b]

Range(s) == {s[i] : i \in DOMAIN s}

Min(S) == CHOOSE m \in S : \A o \in S : m <= o

RECURSIVE SumOver(_, _)
SumOver(f, S) ==
  IF S = {} THEN 0
  ELSE LET e == CHOOSE e \in S : TRUE IN f[e] + SumOver(f, S \ {e})

RECURSIVE GCD(_, _)
GCD(a, b) == IF b = 0 THEN a ELSE GCD(b, a % b)

RECURSIVE LCMUpTo(_)
LCMUpTo(n) == IF n <= 1 THEN 1 ELSE LET l == LCMUpTo(n - 1) IN (l * n) \div GCD(l, n)

\* Means of up to n integers are exact multiples of 1/Scale(n): coordinates of
\* derived points (centroids) are kept multiplied by Scale(n).
Scale(n) == LCMUpTo(n)

\* squared Euclidean distance
Dist2(p, q) == (p.x - q.x) * (p.x - q.x) + (p.y - q.y) * (p.y - q.y)

(***************************************************************************)
(* parseInt(e.target.value): the text of an <input type="number"> is a     *)
(* sequence of characters; parseInt reads an optional sign and the longest *)
(* run of leading digits, and yields NaN when there is none.               *)
(***************************************************************************)
Digits == <<"0", "1", "2", "3", "4", "5", "6", "7", "8", "9">>

IsDigit(c) == c \in Range(Digits)

DigitVal(c) == (CHOOSE i \in DOMAIN Digits : Digits[i] = c) - 1

RECURSIVE ParseDigits(_, _)
ParseDigits(s, acc) ==
  IF s = <<>> \/ ~IsDigit(Head(s)) THEN acc
  ELSE ParseDigits(Tail(s), 10 * acc + DigitVal(Head(s)))

ParseInt(s) ==
  LET neg  == s # <<>> /\ Head(s) = "-"
      body == IF s # <<>> /\ Head(s) \in {"-", "+"} THEN Tail(s) ELSE s
  IN  IF body = <<>> \/ ~IsDigit(Head(body)) THEN NaN
      ELSE IF neg THEN Num(0 - ParseDigits(body, 0)) ELSE Num(ParseDigits(body, 0))

(***************************************************************************)
(* KMeansClusterer (spec 4.1, Lloyd's method).  Points and centroids are    *)
(* handled with coordinates multiplied by Scale(n), so that every mean is   *)
(* an exact integer: sp is the scaled point array.                         *)
(***************************************************************************)
Scaled(points) ==
  LET m == Scale(Len(points))
  IN  [i \in DOMAIN points |-> Pt(points[i].x * m, points[i].y * m)]

\* step 1: the ordered choices of k distinct input points as initial centroids
InitChoices(n, k) ==
  {c \in [1..k -> 1..n] : \A a, b \in 1..k : a # b => c[a] # c[b]}

InitCentroids(sp, choice) ==
  [j \in DOMAIN choice |-> sp[choice[j]]]

\* step 2a: index of the centroid nearest to p, ties to the lowest index
NearestMutFarthest(p, cent) ==
  Min({j \in DOMAIN cent : \A o \in DOMAIN cent : Dist2(p, cent[j]) >= Dist2(p, cent[o])})

Nearest(p, cent) ==
  Min({j \in DOMAIN cent : \A o \in DOMAIN cent : Dist2(p, cent[j]) <= Dist2(p, cent[o])})

AssignStep(sp, cent) ==
  [i \in DOMAIN sp |-> Nearest(sp[i], cent)]

\* step 2b: coordinate-wise mean of the members; an empty cluster keeps its centroid
MeanOf(sp, members) ==
  LET sx == SumOver([i \in members |-> sp[i].x], members)
      sy == SumOver([i \in members |-> sp[i].y], members)
  IN  Pt(sx \div Cardinality(members), sy \div Cardinality(members))

UpdateStep(sp, assign, cent) ==
  [j \in DOMAIN cent |->
     LET members == {i \in DOMAIN sp : assign[i] = j}
     IN  IF members = {} THEN cent[j] ELSE MeanOf(sp, members)]

\* sum of squared distances from the points to their assigned centroids
\* (multiplied by Scale(n)^2)
SSE(sp, assign, cent) ==
  SumOver([i \in DOMAIN sp |-> Dist2(sp[i], cent[assign[i]])], DOMAIN sp)

\* step 2c: no point changed cluster, or no centroid moved (a non-zero
\* displacement is at least 1/Scale(n), far above 1e-6), or the bound is hit
Converged(prevAssign, assign, cent, newCent, iter) ==
  \/ prevAssign = assign
  \/ newCent = cent
  \/ iter >= MaxIterations

RECURSIVE Lloyd(_, _, _, _)
Lloyd(sp, cent, prevAssign, iter) ==
  LET assign  == AssignStep(sp, cent)
      newCent == UpdateStep(sp, assign, cent)
  IN  IF Converged(prevAssign, assign, cent, newCent, iter) THEN assign
      ELSE Lloyd(sp, newCent, assign, iter + 1)

\* contract of spec 4.1: the error a call fails with, or "ok"
KMeansCheck(points, k) ==
  IF Len(points) = 0 THEN "EmptyInput"
  ELSE IF ~IsNum(k) \/ Val(k) < 1 \/ Val(k) > Len(points) THEN "InvalidParameter"
  ELSE "ok"

\* result.clusters of a run started from the centroid choice: 0-based labels
KMeansClusters(points, choice) ==
  LET sp == Scaled(points)
      a  == Lloyd(sp, InitCentroids(sp, choice), [i \in DOMAIN sp |-> 0], 1)
  IN  [i \in DOMAIN points |-> a[i] - 1]

(***************************************************************************)
(* DbscanClusterer (spec 4.2).  run() hands the caller the clusters it      *)
(* found, in the order their first core point was met; a cluster is the set *)
(* of the indices of its points.                                            *)
(***************************************************************************)
\* step 2a: the points within Euclidean distance eps of point i, i included
Neighbours(points, i, eps) ==
  {j \in DOMAIN points : Dist2(points[i], points[j]) <= eps * eps}

IsCore(points, i, eps, minPts) ==
  Cardinality(Neighbours(points, i, eps)) >= minPts

\* step 2c: breadth-first expansion from the members that are core points,
\* skipping the points an earlier cluster holds
RECURSIVE Expand(_, _, _, _, _)
Expand(points, eps, minPts, members, taken) ==
  LET reach == UNION {Neighbours(points, c, eps) :
                        c \in {m \in members : IsCore(points, m, eps, minPts)}}
      fresh == reach \ (members \cup taken)
  IN  IF fresh = {} THEN members
      ELSE Expand(points, eps, minPts, members \cup fresh, taken)

\* step 2: the scan in input order; a point that is not core and that no
\* cluster absorbs stays Noise
RECURSIVE Scan(_, _, _, _, _)
Scan(points, eps, minPts, i, found) ==
  IF i > Len(points) THEN found
  ELSE IF i \in UNION Range(found) \/ ~IsCore(points, i, eps, minPts)
       THEN Scan(points, eps, minPts, i + 1, found)
  ELSE Scan(points, eps, minPts, i + 1,
            Append(found, Expand(points, eps, minPts, {i}, UNION Range(found))))

\* contract of spec 4.2 and taxonomy of spec 7: the error a call fails with, or "ok"
DbscanCheck(points, eps, minPts) ==
  IF Len(points) = 0 THEN "EmptyInput"
  ELSE IF ~IsNum(eps) \/ Val(eps) <= 0 THEN "InvalidParameter"
  ELSE IF ~IsNum(minPts) \/ Val(minPts) < 1 THEN "InvalidParameter"
  ELSE "ok"

DbscanRun(points, eps, minPts) == Scan(points, Val(eps), Val(minPts), 1, <<>>)

(***************************************************************************)
(* runClustering (App.tsx 31-53)                                           *)
(***************************************************************************)
\* data.map(d => [d.x, d.y])
Coords(data) == [i \in DOMAIN data |-> Pt(data[i].x, data[i].y)]

\* lines 35-38: {...d, cluster: result.clusters[i]}
KMeansLabelledMutOneBased(data, res) ==
  [i \in DOMAIN data |-> [data[i] EXCEPT !.cluster = Num(res[i] + 1)]]

KMeansLabelledMutShifted(data, res) ==
  [i \in DOMAIN data |->
     [data[i] EXCEPT !.cluster = IF i < Len(data) THEN Num(res[i + 1]) ELSE Undefined]]

KMeansLabelled(data, res) ==
  [i \in DOMAIN data |-> [data[i] EXCEPT !.cluster = Num(res[i])]]

\* clusters.findIndex(cluster => cluster.includes(i)), 0-based, -1 when none
FindIndex(found, i) ==
  IF \E c \in DOMAIN found : i \in found[c]
  THEN Min({c \in DOMAIN found : i \in found[c]}) - 1
  ELSE -1

\* lines 43-46: clusters.find(...) ? clusters.findIndex(...) : -1
DbscanLabelledMutFalsyZero(data, found) ==
  [i \in DOMAIN data |->
     [data[i] EXCEPT !.cluster =
        Num(IF FindIndex(found, i) # 0 THEN FindIndex(found, i) ELSE Noise)]]

DbscanLabelled(data, found) ==
  [i \in DOMAIN data |->
     [data[i] EXCEPT !.cluster =
        Num(IF \E c \in DOMAIN found : i \in found[c] THEN FindIndex(found, i) ELSE Noise)]]

\* line 50: the message setError receives
ErrorMessage(kind) == "Error running clustering algorithm: " \o kind

\* lines 49-52: what the catch block returns
OnErrorMutEmpty(data) == <<>>

OnError(data) == data

\* the outcome of the library call of the selected algorithm
CallOutcome(data, clusterCount, alg, eps, minPts) ==
  IF alg = "kmeans" THEN KMeansCheck(Coords(data), clusterCount)
  ELSE IF alg = "dbscan" THEN DbscanCheck(Coords(data), eps, minPts)
  ELSE "ok"

\* the random choices a call can make: K-means draws its initial centroids
\* (line 34 passes no seed), nothing else is random
Choices(data, clusterCount, alg, eps, minPts) ==
  IF alg = "kmeans" /\ CallOutcome(data, clusterCount, alg, eps, minPts) = "ok"
  THEN InitChoices(Len(data), Val(clusterCount))
  ELSE {<<>>}

\* the array runClustering returns
RunClustering(data, clusterCount, alg, eps, minPts, choice) ==
  IF CallOutcome(data, clusterCount, alg, eps, minPts) # "ok" THEN OnError(data)
  ELSE IF alg = "kmeans" THEN KMeansLabelled(data, KMeansClusters(Coords(data), choice))
  ELSE IF alg = "dbscan" THEN DbscanLabelled(data, DbscanRun(Coords(data), eps, minPts))
  ELSE data

\* the error state after the call (setError only on the catch path)
ErrorAfterMutSwallow(err, outcome) == err

ErrorAfterMutClear(err, outcome) ==
  IF outcome # "ok" THEN ErrorMessage(outcome) ELSE NULL

ErrorAfter(err, outcome) ==
  IF outcome # "ok" THEN ErrorMessage(outcome) ELSE err

(***************************************************************************)
(* The render effect's drawing (App.tsx 66-107)                            *)
(***************************************************************************)
\* line 84: a coloured circle for a numbered cluster, '#ccc' otherwise
Fill(d) ==
  IF d.cluster # Undefined /\ Val(d.cluster) # Noise
  THEN [grey |-> FALSE, key |-> d.cluster]
  ELSE [grey |-> TRUE, key |-> Undefined]

\* lines 88-92: d3.rollup by d.cluster with the d3.mean of x and of y; the
\* coordinates of a marker are multiplied by Scale(n)
Centroids(data) ==
  {[key |-> k,
    at  |-> MeanOf(Scaled(Coords(data)), {i \in DOMAIN data : data[i].cluster = k})] :
     k \in {data[i].cluster : i \in DOMAIN data}}

\* lines 69-106: what the svg holds after the effect ran
Draw(data, alg) ==
  [fills     |-> [i \in DOMAIN data |-> Fill(data[i])],
   centroids |-> IF alg = "kmeans" THEN Centroids(data) ELSE {}]

(***************************************************************************)
(* Inputs                                                                  *)
(***************************************************************************)
RawPt(a, b) == [x |-> a, y |-> b, cluster |-> Undefined]

\* point arrays generateRandomData can produce, cut to NumPoints points
BaseData ==
  { <<RawPt(0, 0), RawPt(0, 1), RawPt(10, 10), RawPt(10, 11), RawPt(5, 5), RawPt(20, 0)>>,
    <<RawPt(0, 0), RawPt(1, 0), RawPt(2, 0), RawPt(4, 0), RawPt(5, 0), RawPt(9, 9)>>,
    <<RawPt(0, 0), RawPt(0, 0), RawPt(4, 0), RawPt(4, 0), RawPt(2, 3), RawPt(2, 3)>> }

DataSets == {SubSeq(b, 1, NumPoints) : b \in BaseData}

\* texts typed into the number inputs
ClusterTexts == {<<>>, <<"0">>, <<"2", ".", "5">>, <<"3">>, <<"9">>}
EpsilonTexts == {<<"0">>, <<"1">>, <<"5", "0">>}
MinPointsTexts == {<<>>, <<"2">>, <<"3">>}
Algorithms == {"kmeans", "dbscan"}

(***************************************************************************)
(* State                                                                   *)
(***************************************************************************)
VARIABLES
  rawData, clusteredData, clusters, algorithm, epsilon, minPoints, error,  \* useState, lines 14-20
  cdIsRaw,    \* clusteredData is the very array rawData holds (returned by line 48 or 51)
  cdSource,   \* what produced clusteredData: "none", "kmeans", "dbscan" or "unlabelled"
  view,       \* the state the closures of the last render captured
  dirty,      \* the arrays replaced since the last render
  pending,    \* the effects of the last render that have not run yet, in order
  svg,        \* what the render effect drew last
  svgSource,  \* cdSource of the data the render effect drew last
  \* one K-means engine taken alone, step by step (spec 4.1)
  kmPoints,   \* the scaled points of the call
  kmK,        \* the k of the call
  kmCent,     \* the centroids
  kmAssign,   \* the assignment of the current iteration, <<>> before the first
  kmPrev,     \* the assignment of the previous iteration
  kmIter,     \* the iteration number, from 1
  kmPc,       \* "idle", "init", "assign", "update" or "done"
  kmFirst     \* the assignment an earlier call on the same points and k returned

appVars == <<rawData, clusteredData, clusters, algorithm, epsilon, minPoints, error,
             cdIsRaw, cdSource, view, dirty, pending, svg, svgSource>>

kmVars == <<kmPoints, kmK, kmCent, kmAssign, kmPrev, kmIter, kmPc, kmFirst>>

vars == <<appVars, kmVars>>

Snapshot ==
  [rawData |-> rawData, clusteredData |-> clusteredData, clusters |-> clusters,
   algorithm |-> algorithm, epsilon |-> epsilon, minPoints |-> minPoints,
   cdSource |-> cdSource]

AppInit ==
  /\ rawData = <<>>
  /\ clusteredData = <<>>
  /\ clusters = Num(InitClusters)
  /\ algorithm = "kmeans"
  /\ epsilon = Num(InitEpsilon)
  /\ minPoints = Num(InitMinPoints)
  /\ error = NULL
  /\ cdIsRaw = FALSE
  /\ cdSource = "none"
  /\ view = Snapshot
  /\ dirty = {}
  /\ pending = <<"generate", "cluster", "render">>
  /\ svg = [fills |-> <<>>, centroids |-> {}]
  /\ svgSource = "none"

KMIdle ==
  /\ kmPoints = <<>>
  /\ kmK = 0
  /\ kmCent = <<>>
  /\ kmAssign = <<>>
  /\ kmPrev = <<>>
  /\ kmIter = 0
  /\ kmPc = "idle"
  /\ kmFirst = <<>>

Init == AppInit /\ KMIdle

(***************************************************************************)
(* React: after the effects of a render have run, a state change renders    *)
(* again and runs the effects whose dependencies changed, in source order.  *)
(***************************************************************************)
\* dependency arrays of lines 53, 64 and 107
EffectsAfter(old, new, d) ==
  LET runClusteringChanged ==
        \/ new.algorithm # old.algorithm
        \/ new.epsilon # old.epsilon
        \/ new.minPoints # old.minPoints
      cluster == "rawData" \in d \/ new.clusters # old.clusters \/ runClusteringChanged
      render  == "clusteredData" \in d \/ new.algorithm # old.algorithm
  IN  (IF cluster THEN <<"cluster">> ELSE <<>>) \o (IF render THEN <<"render">> ELSE <<>>)

\* the rest of this render's effects, or the next render
Settle(rest, d) ==
  IF rest # <<>>
  THEN /\ pending' = rest
       /\ view' = view
       /\ dirty' = d
  ELSE /\ pending' = EffectsAfter(view, Snapshot', d)
       /\ view' = Snapshot'
       /\ dirty' = {}

(***************************************************************************)
(* Effects                                                                 *)
(***************************************************************************)
\* generateRandomData (lines 23-29): a fresh array of unlabelled points
GenerateRandomData ==
  /\ rawData' \in DataSets
  /\ cdIsRaw' = FALSE

\* lines 55-57, on mount
GenerateEffect ==
  /\ pending # <<>> /\ Head(pending) = "generate"
  /\ GenerateRandomData
  /\ UNCHANGED <<clusteredData, clusters, algorithm, epsilon, minPoints, error,
                 cdSource, svg, svgSource>>
  /\ UNCHANGED kmVars
  /\ Settle(Tail(pending), dirty \cup {"rawData"})

\* line 60: the guard of the clustering effect
ShouldRunMutNoGuard(data) == TRUE

ShouldRun(data) == Len(data) > 0

\* lines 59-64, with the values the render captured
ClusterEffect ==
  /\ pending # <<>> /\ Head(pending) = "cluster"
  /\ UNCHANGED kmVars
  /\ UNCHANGED <<rawData, clusters, algorithm, epsilon, minPoints, svg, svgSource>>
  /\ IF ShouldRun(view.rawData)
     THEN \E choice \in Choices(view.rawData, view.clusters, view.algorithm,
                                view.epsilon, view.minPoints) :
            LET outcome == CallOutcome(view.rawData, view.clusters, view.algorithm,
                                       view.epsilon, view.minPoints)
                result  == RunClustering(view.rawData, view.clusters, view.algorithm,
                                         view.epsilon, view.minPoints, choice)
                same    == outcome # "ok" /\ cdIsRaw
            IN  /\ error' = ErrorAfter(error, outcome)
                /\ clusteredData' = result
                /\ cdIsRaw' = (outcome # "ok")
                /\ cdSource' = IF outcome = "ok" THEN view.algorithm ELSE "unlabelled"
                /\ Settle(Tail(pending),
                          IF same THEN dirty ELSE dirty \cup {"clusteredData"})
     ELSE /\ UNCHANGED <<clusteredData, error, cdIsRaw, cdSource>>
          /\ Settle(Tail(pending), dirty)

\* lines 66-107, with the values the render captured
RenderEffect ==
  /\ pending # <<>> /\ Head(pending) = "render"
  /\ UNCHANGED <<rawData, clusteredData, clusters, algorithm, epsilon, minPoints,
                 error, cdIsRaw, cdSource>>
  /\ IF Len(view.clusteredData) = 0
     THEN UNCHANGED <<svg, svgSource>>
     ELSE /\ svg' = Draw(view.clusteredData, view.algorithm)
          /\ svgSource' = view.cdSource
  /\ UNCHANGED kmVars
  /\ Settle(Tail(pending), dirty)

(***************************************************************************)
(* Event handlers: an event is handled once the effects have run            *)
(***************************************************************************)
\* lines 109-112
HandleGenerateData ==
  /\ pending = <<>>
  /\ error' = NULL
  /\ GenerateRandomData
  /\ UNCHANGED <<clusteredData, clusters, algorithm, epsilon, minPoints,
                 cdSource, svg, svgSource>>
  /\ UNCHANGED kmVars
  /\ Settle(<<>>, {"rawData"})

\* lines 114-117; the input is shown for K-means only (line 152)
HandleClusterChange ==
  /\ pending = <<>>
  /\ algorithm = "kmeans"
  /\ \E text \in ClusterTexts : clusters' = ParseInt(text)
  /\ UNCHANGED <<rawData, clusteredData, algorithm, epsilon, minPoints, error,
                 cdIsRaw, cdSource, svg, svgSource>>
  /\ UNCHANGED kmVars
  /\ Settle(<<>>, {})

\* lines 119-121
HandleAlgorithmChange ==
  /\ pending = <<>>
  /\ \E value \in Algorithms : algorithm' = value
  /\ UNCHANGED <<rawData, clusteredData, clusters, epsilon, minPoints, error,
                 cdIsRaw, cdSource, svg, svgSource>>
  /\ UNCHANGED kmVars
  /\ Settle(<<>>, {})

\* lines 123-125; the input is shown for DBSCAN only (line 168)
HandleEpsilonChange ==
  /\ pending = <<>>
  /\ algorithm = "dbscan"
  /\ \E text \in EpsilonTexts : epsilon' = ParseInt(text)
  /\ UNCHANGED <<rawData, clusteredData, clusters, algorithm, minPoints, error,
                 cdIsRaw, cdSource, svg, svgSource>>
  /\ UNCHANGED kmVars
  /\ Settle(<<>>, {})

\* lines 127-129; the input is shown for DBSCAN only (line 168)
HandleMinPointsChange ==
  /\ pending = <<>>
  /\ algorithm = "dbscan"
  /\ \E text \in MinPointsTexts : minPoints' = ParseInt(text)
  /\ UNCHANGED <<rawData, clusteredData, clusters, algorithm, epsilon, error,
                 cdIsRaw, cdSource, svg, svgSource>>
  /\ UNCHANGED kmVars
  /\ Settle(<<>>, {})

Next ==
  \/ GenerateEffect
  \/ ClusterEffect
  \/ RenderEffect
  \/ HandleGenerateData
  \/ HandleClusterChange
  \/ HandleAlgorithmChange
  \/ HandleEpsilonChange
  \/ HandleMinPointsChange

Spec == Init /\ [][Next]_vars

(***************************************************************************)
(* One K-means call, iteration by iteration, and a second call on the same *)
(* points and k (line 34 passes no seed, so each call draws its own initial *)
(* centroids).                                                             *)
(***************************************************************************)
Scenario == <<Pt(0, 0), Pt(0, 1), Pt(10, 10), Pt(10, 11)>>

KMInputs ==
  { Scenario,
    <<Pt(0, 0), Pt(1, 0), Pt(2, 0), Pt(4, 0)>>,
    <<Pt(0, 0), Pt(0, 0), Pt(4, 0), Pt(6, 0)>>,
    <<Pt(0, 0), Pt(3, 0), Pt(0, 3)>> }

KMInit ==
  /\ AppInit
  /\ kmPoints \in {Scaled(p) : p \in KMInputs}
  /\ kmK \in 1..Len(kmPoints)
  /\ kmCent = <<>>
  /\ kmAssign = <<>>
  /\ kmPrev = <<>>
  /\ kmIter = 0
  /\ kmPc = "init"
  /\ kmFirst = <<>>

\* step 1
KMStart ==
  /\ kmPc = "init"
  /\ \E choice \in InitChoices(Len(kmPoints), kmK) :
       kmCent' = InitCentroids(kmPoints, choice)
  /\ kmAssign' = <<>>
  /\ kmPrev' = [i \in DOMAIN kmPoints |-> 0]
  /\ kmIter' = 1
  /\ kmPc' = "assign"
  /\ UNCHANGED <<kmPoints, kmK, kmFirst, appVars>>

\* step 2a
KMAssign ==
  /\ kmPc = "assign"
  /\ kmAssign' = AssignStep(kmPoints, kmCent)
  /\ kmPc' = "update"
  /\ UNCHANGED <<kmPoints, kmK, kmCent, kmPrev, kmIter, kmFirst, appVars>>

\* steps 2b and 2c
KMUpdate ==
  /\ kmPc = "update"
  /\ kmCent' = UpdateStep(kmPoints, kmAssign, kmCent)
  /\ IF Converged(kmPrev, kmAssign, kmCent, kmCent', kmIter)
     THEN /\ kmPc' = "done"
          /\ UNCHANGED <<kmPrev, kmIter>>
     ELSE /\ kmPc' = "assign"
          /\ kmPrev' = kmAssign
          /\ kmIter' = kmIter + 1
  /\ UNCHANGED <<kmPoints, kmK, kmAssign, kmFirst, appVars>>

\* step 3 of the first call, and the start of a second one
KMRerun ==
  /\ kmPc = "done"
  /\ kmFirst = <<>>
  /\ kmFirst' = kmAssign
  /\ kmCent' = <<>>
  /\ kmAssign' = <<>>
  /\ kmPrev' = <<>>
  /\ kmIter' = 0
  /\ kmPc' = "init"
  /\ UNCHANGED <<kmPoints, kmK, appVars>>

KMNext == KMStart \/ KMAssign \/ KMUpdate \/ KMRerun

SpecKM == KMInit /\ [][KMNext]_vars

\* the step machine returns what Lloyd computes
KMAgreesWithLloyd ==
  kmPc = "done" =>
    \E choice \in InitChoices(Len(kmPoints), kmK) :
      kmAssign = Lloyd(kmPoints, InitCentroids(kmPoints, choice),
                       [i \in DOMAIN kmPoints |-> 0], 1)

(***************************************************************************)
(* Properties                                                              *)
(***************************************************************************)
\* clusteredData is what the last call of runClustering returned for the
\* current rawData, clusters, algorithm, epsilon and minPoints
Fresh ==
  /\ cdSource # "none"
  /\ pending = <<>> \/ Head(pending) = "render"

Labelled(d) == d.cluster # Undefined

Label(d) == Val(d.cluster)

\* the step is a call of runClustering by the clustering effect
RunStep ==
  /\ pending # <<>> /\ Head(pending) = "cluster"
  /\ Len(view.rawData) > 0

\* the step is a run of the render effect
RenderStep == pending # <<>> /\ Head(pending) = "render"

\* the outcome of the call the clustering effect is about to make
ViewOutcome ==
  CallOutcome(view.rawData, view.clusters, view.algorithm, view.epsilon, view.minPoints)

\* C1: runClustering returns an array as long as its input whose element i
\* has the x and y of input point i, whether the clustering call returned or threw.
C1_SameLengthAndCoordinates ==
  Fresh =>
    /\ Len(clusteredData) = Len(rawData)
    /\ \A i \in DOMAIN clusteredData :
         clusteredData[i].x = rawData[i].x /\ clusteredData[i].y = rawData[i].y

C1_Witness ==
  /\ Fresh /\ cdSource = "unlabelled" /\ Len(clusteredData) = NumPoints
  /\ error = ErrorMessage("InvalidParameter")

\* C2: the labels a successful run places are well-formed: after K-means every
\* point has one integer label in [0, k); after DBSCAN every point has one
\* label, an integer in [0, numClusters) or Noise (-1).
C2_LabelsWellFormed ==
  /\ (Fresh /\ cdSource = "kmeans") =>
       /\ IsNum(clusters) /\ 1 <= Val(clusters) /\ Val(clusters) <= Len(rawData)
       /\ \A i \in DOMAIN clusteredData :
            /\ Labelled(clusteredData[i])
            /\ Label(clusteredData[i]) \in 0..(Val(clusters) - 1)
  /\ (Fresh /\ cdSource = "dbscan") =>
       LET numClusters == Len(DbscanRun(Coords(rawData), epsilon, minPoints))
       IN  \A i \in DOMAIN clusteredData :
             /\ Labelled(clusteredData[i])
             /\ Label(clusteredData[i]) \in 0..(numClusters - 1) \cup {Noise}

C2_Witness ==
  /\ Fresh /\ cdSource = "dbscan"
  /\ \E i, j \in DOMAIN clusteredData :
       Label(clusteredData[i]) = Noise /\ Label(clusteredData[j]) = 0

\* C3 as stated: a call of runClustering either puts a complete assignment
\* sequence in clusteredData, or reports an error and leaves clusteredData
\* with the assignments it held before the call.
C3_FailedRunKeepsPrevious ==
  [][RunStep =>
       \/ \A i \in DOMAIN clusteredData' : Labelled(clusteredData'[i])
       \/ error' # NULL /\ clusteredData' = clusteredData]_vars

\* C3 amended: after a call of runClustering either every point of
\* clusteredData carries a label, or an error is reported and clusteredData
\* is the unlabelled input array: the earlier assignments are dropped, and no
\* point keeps or gets a label.
C3_AllOrNothing ==
  Fresh =>
    \/ \A i \in DOMAIN clusteredData : Labelled(clusteredData[i])
    \/ /\ error # NULL
       /\ clusteredData = rawData
       /\ \A i \in DOMAIN clusteredData : ~Labelled(clusteredData[i])

C3_Witness ==
  /\ Fresh /\ cdSource = "unlabelled" /\ error # NULL
  /\ clusteredData = rawData /\ Len(rawData) = NumPoints
  /\ svgSource = "kmeans"

\* C4 as stated: K-means with k < 1 or k > n and DBSCAN with epsilon <= 0 or
\* minPoints < 1 end with the error InvalidParameter reported, and an empty
\* point array ends with the error EmptyInput reported.
C4_ErrorsReported ==
  [][(pending # <<>> /\ Head(pending) = "cluster") =>
       /\ ViewOutcome = "InvalidParameter" => error' = ErrorMessage("InvalidParameter")
       /\ Len(view.rawData) = 0 => error' = ErrorMessage("EmptyInput")]_vars

\* C4 amended: on a non-empty point array, K-means with a k that is not a
\* number in [1, n] and DBSCAN with an epsilon that is not a number > 0 or a
\* minPoints that is not a number >= 1 end with the error message naming
\* InvalidParameter set and the unlabelled input returned; on an empty point
\* array the clustering effect makes no call and reports nothing.
C4_InvalidParameterReported ==
  [][(pending # <<>> /\ Head(pending) = "cluster") =>
       /\ ViewOutcome = "InvalidParameter" =>
            /\ error' = ErrorMessage("InvalidParameter")
            /\ clusteredData' = view.rawData
       /\ Len(view.rawData) = 0 =>
            /\ error' = error
            /\ clusteredData' = clusteredData]_vars

C4_Witness ==
  /\ Fresh /\ algorithm = "dbscan" /\ epsilon = Num(0)
  /\ error = ErrorMessage("InvalidParameter")
  /\ Len(rawData) = NumPoints

\* C9: the centroid markers the render effect draws are means of groups of
\* points that share a label a K-means run produced.
C9_CentroidsFromKMeansLabels ==
  svg.centroids # {} => svgSource = "kmeans"

\* C10: only handleGenerateData resets the error message to null; the other
\* handlers and a run that succeeds leave it as it is.
C10_ErrorResetOnlyByGenerate ==
  [][/\ (error # NULL /\ error' = NULL) => HandleGenerateData
     /\ (HandleAlgorithmChange \/ HandleClusterChange \/ HandleEpsilonChange
           \/ HandleMinPointsChange \/ RenderStep) => error' = error
     /\ (RunStep /\ ViewOutcome = "ok") => error' = error]_vars

C10_Witness ==
  /\ Fresh /\ error # NULL
  /\ cdSource \in {"kmeans", "dbscan"}
  /\ \A i \in DOMAIN clusteredData : Labelled(clusteredData[i])

\* C5: a second K-means call on the same points with the same k returns the
\* assignment the first call returned, so re-running relabels no point.
C5_RerunSameLabels ==
  (kmPc = "done" /\ kmFirst # <<>>) => kmAssign = kmFirst

\* C6: while a K-means call runs, neither the assignment step nor the update
\* step increases the sum of squared distances from the points to their
\* assigned centroids.
C6_CostNeverIncreases ==
  [][(kmAssign # <<>> /\ kmAssign' # <<>>) =>
       SSE(kmPoints', kmAssign', kmCent') <= SSE(kmPoints, kmAssign, kmCent)]_vars

\* a call that took two iterations and kept an empty cluster's centroid
C6_Witness ==
  /\ kmPc = "done" /\ kmIter >= 2
  /\ \E j \in DOMAIN kmCent : \A i \in DOMAIN kmAssign : kmAssign[i] # j

\* C7: on [(0,0),(0,1),(10,10),(10,11)] with k = 2, whichever two input
\* points start as centroids, points 0 and 1 end with one label and points 2
\* and 3 with the other.
C7_ScenarioPartition ==
  (Fresh /\ cdSource = "kmeans" /\ Coords(rawData) = Scenario /\ clusters = Num(2)) =>
    /\ \A i \in DOMAIN clusteredData : Labelled(clusteredData[i])
    /\ Label(clusteredData[1]) = Label(clusteredData[2])
    /\ Label(clusteredData[3]) = Label(clusteredData[4])
    /\ Label(clusteredData[1]) # Label(clusteredData[3])

C7_Witness ==
  /\ Fresh /\ cdSource = "kmeans" /\ Coords(rawData) = Scenario /\ clusters = Num(2)
  /\ Label(clusteredData[1]) = 1 /\ Label(clusteredData[3]) = 0

\* C8: after a DBSCAN run a point is Noise exactly when it is not a core
\* point and lies within epsilon of no core point; every other point has a
\* numbered cluster; two core points within epsilon of each other share a label.
C8_NoiseExactlyUnreachable ==
  (Fresh /\ cdSource = "dbscan") =>
    LET pts     == Coords(rawData)
        eps     == Val(epsilon)
        core(i) == IsCore(pts, i, eps, Val(minPoints))
    IN  /\ \A i \in DOMAIN clusteredData :
             /\ Labelled(clusteredData[i])
             /\ Label(clusteredData[i]) = Noise <=>
                  /\ ~core(i)
                  /\ \A j \in DOMAIN pts : core(j) => j \notin Neighbours(pts, i, eps)
             /\ Label(clusteredData[i]) # Noise => Label(clusteredData[i]) >= 0
        /\ \A i, j \in DOMAIN pts :
             (core(i) /\ core(j) /\ j \in Neighbours(pts, i, eps)) =>
               Label(clusteredData[i]) = Label(clusteredData[j])

\* a run that left a core point, a border point and a noise point
C8_Witness ==
  /\ Fresh /\ cdSource = "dbscan"
  /\ \E i, j, l \in DOMAIN clusteredData :
       /\ IsCore(Coords(rawData), i, Val(epsilon), Val(minPoints))
       /\ ~IsCore(Coords(rawData), j, Val(epsilon), Val(minPoints))
       /\ Label(clusteredData[j]) = Label(clusteredData[i])
       /\ Label(clusteredData[l]) = Noise

====
